---- MODULE Spec2Model ----
(***************************************************************************)
(* Model of pdfmake's layout core:                                         *)
(*   - PageElementWriter (src/src/pageElementWriter.js): page breaks,      *)
(*     unbreakable blocks (transactions) and repeatable fragments;         *)
(*   - DocMeasure (src/src/docMeasure.js): min/max width measurement.      *)
(* ElementWriter, DocumentContext and Line are collaborators whose code is *)
(* not part of the two files; they are modelled from the specification.    *)
(***************************************************************************)
EXTENDS Integers, Sequences, FiniteSets, TLC

\* ------------------------------------------------------------------------
\* Bounds of the model
\* ------------------------------------------------------------------------
PageHeight == 3
MaxPages == 3
MaxPageLines == 3
MaxPageVectors == 1
MaxItems == 5
MaxSteps == 5
MaxReps == 2
MaxLevel == 2
MaxX == 1
MaxCols == 3
MaxRows == 2
MaxChildren == 2

\* ------------------------------------------------------------------------
\* Values
\* ------------------------------------------------------------------------
\* Lines are identified by name; "big" is taller than a whole page.
Lines == {"l1", "big"}
Vectors == {"v1"}

\* Line.getHeight()
getHeight(line) == IF line = "big" THEN PageHeight + 1 ELSE 1

\* A JS property holding a number or undefined: <<>> is undefined, <<n>> is n.
Undefined == <<>>
Num(n) == <<n>>
IsNum(v) == v # <<>>
Val(v) == IF v = <<>> THEN 0 ELSE v[1]

\* { lines: [], vectors: [] }: a page; commitUnbreakableBlock sets .height on it.
NewPage == [lines |-> <<>>, vectors |-> <<>>, height |-> Undefined]

\* A fragment as the writer reads it.
Fragment(lines, vectors, height, xOffset) ==
  [lines |-> lines, vectors |-> vectors, height |-> height, xOffset |-> xOffset]

NoFragment == Fragment(<<>>, <<>>, Undefined, Undefined)

\* Fragments that callers build themselves and hand to addFragment / pushToRepeatables.
CallerFragments ==
  { Fragment(<<"f1">>, <<>>, Num(1), Num(0)),
    Fragment(<<"f2">>, <<"v2">>, Num(2), Num(0)) }

\* A reference to a fragment object: either an object of its own ("own", with
\* its contents in val) or the object that is transactionContext.pages[0].
OwnRef(f) == [obj |-> "own", val |-> f]
Page0Ref == [obj |-> "txpage0", val |-> NoFragment]

\* ------------------------------------------------------------------------
\* DocumentContext
\* ------------------------------------------------------------------------
DocumentContext(x) ==
  [pages |-> <<>>, page |-> -1, x |-> x, y |-> 0, availableHeight |-> 0]

addPage(c) ==
  [c EXCEPT !.pages = Append(@, NewPage), !.page = Len(c.pages),
            !.y = 0, !.availableHeight = PageHeight]

moveToPageTop(c) == [c EXCEPT !.y = 0, !.availableHeight = PageHeight]

moveDown(c, h) == [c EXCEPT !.y = @ + h, !.availableHeight = @ - h]

createUnbreakableSubcontext(c) == DocumentContext(0)

\* getCurrentPage() returns a page
hasCurrentPage(c) == c.page >= 0 /\ c.page < Len(c.pages)

\* ------------------------------------------------------------------------
\* The engine's state as one record, so that a handler is a function from
\* state to state and handlers compose as the calls in the code do.
\*   originalContext, transactionContext (<<>> while undefined), context and
\*   writerContext ("original" or "transaction": which object the field
\*   refers to), transactionLevel, repeatables: the fields of
\*   PageElementWriter and of its ElementWriter;
\*   log: the collaborator calls made by the handler that ran last.
\* ------------------------------------------------------------------------
Event(ev, ok, line, frag, flag, on) ==
  [ev |-> ev, ok |-> ok, line |-> line, frag |-> frag, flag |-> flag, on |-> on]

Logged(s, e) == [s EXCEPT !.log = Append(@, e)]

Resolve(s, which) ==
  IF which = "original" THEN s.originalContext ELSE s.transactionContext[1]

Store(s, which, c) ==
  IF which = "original" THEN [s EXCEPT !.originalContext = c]
  ELSE [s EXCEPT !.transactionContext = <<c>>]

\* The fragment a reference denotes at this moment.
Deref(s, ref) ==
  IF ref.obj = "own" THEN ref.val
  ELSE IF s.transactionContext = <<>> \/ s.transactionContext[1].pages = <<>>
       THEN NoFragment
       ELSE LET p == s.transactionContext[1].pages[1]
            IN Fragment(p.lines, p.vectors, p.height, Undefined)

\* ------------------------------------------------------------------------
\* ElementWriter
\* ------------------------------------------------------------------------
setContext(s, which) ==
  Logged([s EXCEPT !.writerContext = which],
         Event("setContext", TRUE, "", NoFragment, FALSE, which))

writerAddLine(s, line, dontUpdateContextPosition) ==
  LET c == Resolve(s, s.writerContext)
      height == getHeight(line)
      fits == hasCurrentPage(c) /\ ~(c.availableHeight < height)
      c1 == [c EXCEPT !.pages[c.page + 1].lines = Append(@, line)]
      c2 == IF dontUpdateContextPosition THEN c1 ELSE moveDown(c1, height)
      e == Event("addLine", fits, line, NoFragment, dontUpdateContextPosition,
                 s.writerContext)
  IN IF fits THEN Logged(Store(s, s.writerContext, c2), e) ELSE Logged(s, e)

writerAddVector(s, vector) ==
  LET c == Resolve(s, s.writerContext)
      c1 == [c EXCEPT !.pages[c.page + 1].vectors = Append(@, vector)]
      e == Event("addVector", hasCurrentPage(c), vector, NoFragment, FALSE,
                 s.writerContext)
  IN IF hasCurrentPage(c) THEN Logged(Store(s, s.writerContext, c1), e)
     ELSE Logged(s, e)

writerAddFragment(s, fragment, isRepeatable) ==
  LET c == Resolve(s, s.writerContext)
      fits == /\ hasCurrentPage(c)
              /\ (isRepeatable \/ ~(Val(fragment.height) > c.availableHeight))
      c1 == [c EXCEPT !.pages[c.page + 1].lines = @ \o fragment.lines,
                      !.pages[c.page + 1].vectors = @ \o fragment.vectors]
      c2 == moveDown(c1, Val(fragment.height))
      e == Event("addFragment", fits, "", fragment, isRepeatable, s.writerContext)
  IN IF fits THEN Logged(Store(s, s.writerContext, c2), e) ELSE Logged(s, e)

\* The value the writer call made last returned.
LastOk(s) == s.log[Len(s.log)].ok

\* ------------------------------------------------------------------------
\* PageElementWriter
\* ------------------------------------------------------------------------
\* function PageElementWriter(context, tracker): the document's context comes
\* with its first page.
PageElementWriter ==
  [originalContext |-> addPage(DocumentContext(0)),
   transactionContext |-> <<>>,
   context |-> "original",
   writerContext |-> "original",
   transactionLevel |-> 0,
   repeatables |-> <<>>,
   log |-> <<>>]

\* this.repeatables.forEach(rep => this.writer.addFragment(rep, true)), from i on
RECURSIVE addRepeatableFragments(_, _)
addRepeatableFragments(s, i) ==
  IF i > Len(s.repeatables) THEN s
  ELSE addRepeatableFragments(
         writerAddFragment(s, Deref(s, s.repeatables[i]), TRUE), i + 1)

\* this.repeatables.forEach(rep => this.context.moveDown(rep.height)), from i on
RECURSIVE moveDownRepeatables(_, _)
moveDownRepeatables(s, i) ==
  IF i > Len(s.repeatables) THEN s
  ELSE moveDownRepeatables(
         Store(s, s.context,
               moveDown(Resolve(s, s.context),
                        Val(Deref(s, s.repeatables[i]).height))),
         i + 1)

\* Mutant of moveToNextPage: re-emits the repeatables on every page it moves
\* to, also on one that already existed.
moveToNextPage_alwaysEmit(s) ==
  LET c == Resolve(s, s.context)
      nextPageIndex == c.page + 1
      created == nextPageIndex >= Len(c.pages)
      s0 == Logged(s, Event("moveToNextPage", created, "", NoFragment, FALSE,
                            s.context))
      c1 == IF created
            THEN moveToPageTop([c EXCEPT !.pages = Append(@, NewPage),
                                         !.page = nextPageIndex])
            ELSE moveToPageTop([c EXCEPT !.page = nextPageIndex])
  IN addRepeatableFragments(Store(s0, s.context, c1), 1)

\* Mutant of moveToNextPage: always creates a page, without looking whether
\* one exists beyond the current index.
moveToNextPage_alwaysCreate(s) ==
  LET c == Resolve(s, s.context)
      s0 == Logged(s, Event("moveToNextPage", TRUE, "", NoFragment, FALSE,
                            s.context))
      c1 == moveToPageTop([c EXCEPT !.pages = Append(@, NewPage),
                                    !.page = Len(c.pages)])
  IN addRepeatableFragments(Store(s0, s.context, c1), 1)

moveToNextPage(s) ==
  LET c == Resolve(s, s.context)
      nextPageIndex == c.page + 1
      created == nextPageIndex >= Len(c.pages)
      s0 == Logged(s, Event("moveToNextPage", created, "", NoFragment, FALSE,
                            s.context))
  IN IF created
     THEN LET c1 == moveToPageTop([c EXCEPT !.pages = Append(@, NewPage),
                                            !.page = nextPageIndex])
          IN addRepeatableFragments(Store(s0, s.context, c1), 1)
     ELSE LET c1 == moveToPageTop([c EXCEPT !.page = nextPageIndex])
          IN moveDownRepeatables(Store(s0, s.context, c1), 1)

\* Mutant of addLine: keeps breaking and retrying while the line does not fit.
addLine_retryAgain(s, line, dontUpdateContextPosition) ==
  LET s1 == writerAddLine(s, line, dontUpdateContextPosition)
      s2 == writerAddLine(moveToNextPage(s1), line, dontUpdateContextPosition)
  IN IF LastOk(s1) THEN s1
     ELSE IF LastOk(s2) THEN s2
     ELSE writerAddLine(moveToNextPage(s2), line, dontUpdateContextPosition)

addLine(s, line, dontUpdateContextPosition) ==
  LET s1 == writerAddLine(s, line, dontUpdateContextPosition)
  IN IF ~LastOk(s1)
     THEN writerAddLine(moveToNextPage(s1), line, dontUpdateContextPosition)
     ELSE s1

addVector(s, vector) == writerAddVector(s, vector)

addFragment(s, ref) ==
  LET s1 == writerAddFragment(s, Deref(s, ref), FALSE)
  IN IF ~LastOk(s1)
     THEN LET s2 == moveToNextPage(s1)
          IN writerAddFragment(s2, Deref(s2, ref), FALSE)
     ELSE s1

activateTransactionContext(s) ==
  setContext([s EXCEPT !.context = "transaction"], "transaction")

removeTransactionContext(s) ==
  setContext([s EXCEPT !.context = "original"], "original")

beginUnbreakableBlock(s) ==
  LET s1 == [s EXCEPT !.transactionLevel = @ + 1]
  IN IF s.transactionLevel = 0
     THEN activateTransactionContext(
            Logged([s1 EXCEPT !.transactionContext =
                      <<createUnbreakableSubcontext(Resolve(s, s.context))>>],
                   Event("createUnbreakableSubcontext", TRUE, "", NoFragment,
                         FALSE, s.context)))
     ELSE s1

\* Mutant of commitUnbreakableBlock: a flag instead of a depth counter, every
\* commit ends the transaction.
commitUnbreakableBlock_flag(s) ==
  LET s1 == [s EXCEPT !.transactionLevel = @ - 1]
      s2 == removeTransactionContext(s1)
      tc == s2.transactionContext[1]
  IN IF Len(tc.pages) > 0
     THEN addFragment(
            [s2 EXCEPT !.transactionContext[1].pages[1].height = Num(tc.y)],
            Page0Ref)
     ELSE s2

commitUnbreakableBlock(s) ==
  LET s1 == [s EXCEPT !.transactionLevel = @ - 1]
  IN IF s1.transactionLevel = 0
     THEN LET s2 == removeTransactionContext(s1)
              tc == s2.transactionContext[1]
          IN IF Len(tc.pages) > 0
             THEN addFragment(
                    [s2 EXCEPT !.transactionContext[1].pages[1].height = Num(tc.y)],
                    Page0Ref)
             ELSE s2
     ELSE s1

\* The fragment unbreakableBlockToRepeatable builds: <<>> when it throws
\* (this.transactionContext or its pages[0] is undefined).
\* Mutant of unbreakableBlockToRepeatable: hands out the sub-context's page
\* object itself instead of a copy of it.
unbreakableBlockToRepeatable_alias(s) ==
  IF s.transactionContext = <<>> \/ Len(s.transactionContext[1].pages) = 0
  THEN <<>>
  ELSE <<Page0Ref>>

unbreakableBlockToRepeatable(s) ==
  IF s.transactionContext = <<>> \/ Len(s.transactionContext[1].pages) = 0
  THEN <<>>
  ELSE LET tc == s.transactionContext[1]
       IN <<OwnRef(Fragment(tc.pages[1].lines, tc.pages[1].vectors,
                            Num(tc.y), Num(s.originalContext.x)))>>

pushToRepeatables(s, rep) == [s EXCEPT !.repeatables = Append(@, rep)]

popFromRepeatables(s) ==
  [s EXCEPT !.repeatables =
     IF Len(@) = 0 THEN @ ELSE SubSeq(@, 1, Len(@) - 1)]

\* A caller of the engine (the layout pass, when it lays out columns) moves
\* the current context back to one of its pages and to another x.
repositionContext(s, p, x) ==
  Store(s, s.context,
        moveToPageTop([Resolve(s, s.context) EXCEPT !.page = p, !.x = x]))

\* ------------------------------------------------------------------------
\* The state machine
\* ------------------------------------------------------------------------
VARIABLES originalContext, transactionContext, context, writerContext,
          transactionLevel, repeatables,
          log,      \* collaborator calls made by the handler that ran last
          lastOp,   \* name of the handler that ran last
          lastArg,  \* its argument: Event-shaped, line / frag / flag
          result,   \* what it gave its caller: "undefined", "fragment", "TypeError"
          rep,      \* <<r>>: the fragment unbreakableBlockToRepeatable returned last
          steps,    \* number of handler calls made so far
          doc, styleDictionary, measured   \* measurement pass, see below

pwVars == <<originalContext, transactionContext, context, writerContext,
            transactionLevel, repeatables, log, lastOp, lastArg, result, rep,
            steps>>
measureVars == <<doc, styleDictionary, measured>>
vars == <<originalContext, transactionContext, context, writerContext,
          transactionLevel, repeatables, log, lastOp, lastArg, result, rep,
          steps, doc, styleDictionary, measured>>

\* The engine's current state, with an empty log for the handler about to run.
Engine ==
  [originalContext |-> originalContext,
   transactionContext |-> transactionContext,
   context |-> context,
   writerContext |-> writerContext,
   transactionLevel |-> transactionLevel,
   repeatables |-> repeatables,
   log |-> <<>>]

ContextBounded(c) ==
  /\ Len(c.pages) <= MaxPages
  /\ \A i \in 1..Len(c.pages) :
       /\ Len(c.pages[i].lines) <= MaxPageLines
       /\ Len(c.pages[i].vectors) <= MaxPageVectors

RECURSIVE Items(_, _)
Items(c, i) ==
  IF i > Len(c.pages) THEN 0
  ELSE Len(c.pages[i].lines) + Len(c.pages[i].vectors) + Items(c, i + 1)

Bounded(s) ==
  /\ Items(s.originalContext, 1)
       + (IF s.transactionContext = <<>> THEN 0
          ELSE Items(s.transactionContext[1], 1)) <= MaxItems
  /\ ContextBounded(s.originalContext)
  /\ s.transactionContext # <<>> => ContextBounded(s.transactionContext[1])
  /\ Len(s.repeatables) <= MaxReps
  /\ s.transactionLevel <= MaxLevel

Becomes(s, op, arg, res) ==
  /\ steps < MaxSteps
  /\ steps' = steps + 1
  /\ Bounded(s)
  /\ originalContext' = s.originalContext
  /\ transactionContext' = s.transactionContext
  /\ context' = s.context
  /\ writerContext' = s.writerContext
  /\ transactionLevel' = s.transactionLevel
  /\ repeatables' = s.repeatables
  /\ log' = s.log
  /\ lastOp' = op
  /\ lastArg' = arg
  /\ result' = res

NoArg == Event("", FALSE, "", NoFragment, FALSE, "")
LineArg(line, flag) == Event("", FALSE, line, NoFragment, flag, "")
FragArg(f) == Event("", FALSE, "", f, FALSE, "")

\* Fragments a caller can hand over: its own, or the one it got from
\* unbreakableBlockToRepeatable.
Handed == {OwnRef(f) : f \in CallerFragments} \cup {rep[i] : i \in 1..Len(rep)}

PwInit ==
  /\ originalContext = PageElementWriter.originalContext
  /\ transactionContext = PageElementWriter.transactionContext
  /\ context = PageElementWriter.context
  /\ writerContext = PageElementWriter.writerContext
  /\ transactionLevel = PageElementWriter.transactionLevel
  /\ repeatables = PageElementWriter.repeatables
  /\ log = <<>>
  /\ lastOp = "new"
  /\ lastArg = NoArg
  /\ result = "undefined"
  /\ rep = <<>>
  /\ steps = 0

AddLine ==
  \E line \in Lines, dontUpdateContextPosition \in BOOLEAN :
    /\ Becomes(addLine(Engine, line, dontUpdateContextPosition), "addLine",
               LineArg(line, dontUpdateContextPosition), "undefined")
    /\ UNCHANGED <<rep, doc, styleDictionary, measured>>

AddVector ==
  \E vector \in Vectors :
    /\ Becomes(addVector(Engine, vector), "addVector", LineArg(vector, FALSE),
               "undefined")
    /\ UNCHANGED <<rep, doc, styleDictionary, measured>>

AddFragment ==
  \E ref \in Handed :
    /\ Becomes(addFragment(Engine, ref), "addFragment",
               FragArg(Deref(Engine, ref)), "undefined")
    /\ UNCHANGED <<rep, doc, styleDictionary, measured>>

MoveToNextPage ==
  /\ Becomes(moveToNextPage(Engine), "moveToNextPage", NoArg, "undefined")
  /\ UNCHANGED <<rep, doc, styleDictionary, measured>>

BeginUnbreakableBlock ==
  /\ Becomes(beginUnbreakableBlock(Engine), "beginUnbreakableBlock", NoArg,
             "undefined")
  /\ UNCHANGED <<rep, doc, styleDictionary, measured>>

\* Callers commit only what they began.
CommitUnbreakableBlock ==
  /\ transactionLevel > 0
  /\ Becomes(commitUnbreakableBlock(Engine), "commitUnbreakableBlock", NoArg,
             "undefined")
  /\ UNCHANGED <<rep, doc, styleDictionary, measured>>

UnbreakableBlockToRepeatable ==
  LET r == unbreakableBlockToRepeatable(Engine)
  IN /\ Becomes(Engine, "unbreakableBlockToRepeatable", NoArg,
                IF r = <<>> THEN "TypeError" ELSE "fragment")
     /\ rep' = IF r = <<>> THEN rep ELSE r
     /\ UNCHANGED <<doc, styleDictionary, measured>>

PushToRepeatables ==
  \E ref \in Handed :
    /\ Becomes(pushToRepeatables(Engine, ref), "pushToRepeatables",
               FragArg(Deref(Engine, ref)), "undefined")
    /\ UNCHANGED <<rep, doc, styleDictionary, measured>>

PopFromRepeatables ==
  /\ Becomes(popFromRepeatables(Engine), "popFromRepeatables", NoArg, "undefined")
  /\ UNCHANGED <<rep, doc, styleDictionary, measured>>

RepositionContext ==
  \E x \in 0..MaxX :
    \E p \in 0..(Resolve(Engine, context).page) :
      /\ Becomes(repositionContext(Engine, p, x), "repositionContext", NoArg,
                 "undefined")
      /\ UNCHANGED <<rep, doc, styleDictionary, measured>>

Next ==
  \/ AddLine
  \/ AddVector
  \/ AddFragment
  \/ MoveToNextPage
  \/ BeginUnbreakableBlock
  \/ CommitUnbreakableBlock
  \/ UnbreakableBlockToRepeatable
  \/ PushToRepeatables
  \/ PopFromRepeatables
  \/ RepositionContext

Init ==
  /\ PwInit
  /\ doc = <<>>
  /\ styleDictionary = <<>>
  /\ measured = <<>>

Spec == Init /\ [][Next]_vars

\* ------------------------------------------------------------------------
\* Reading the log of the handler that ran last
\* ------------------------------------------------------------------------
\* A placement attempt: writer.addLine, or writer.addFragment with its fit check.
IsAttempt(e) == e.ev = "addLine" \/ (e.ev = "addFragment" /\ ~e.flag)
IsBreak(e) == e.ev = "moveToNextPage"
IsRepeat(e) == e.ev = "addFragment" /\ e.flag
IsFork(e) == e.ev = "createUnbreakableSubcontext"
IsSetContext(e) == e.ev = "setContext"

Attempts(l) == SelectSeq(l, IsAttempt)
Breaks(l) == SelectSeq(l, IsBreak)
Repeats(l) == SelectSeq(l, IsRepeat)
Forks(l) == SelectSeq(l, IsFork)
SetContexts(l) == SelectSeq(l, IsSetContext)

\* The attempt was made with the element the handler was given.
SameElement(e, arg) ==
  /\ e.line = arg.line
  /\ e.frag = arg.frag
  /\ e.ev = "addLine" => e.flag = arg.flag

\* C1: addLine and addFragment call the writer once when the first attempt
\* fits, with no page break; when it does not fit they perform exactly one
\* moveToNextPage on the current context and then call the writer exactly once
\* more with the same element.
C1_FitThenRetryOnce ==
  lastOp \in {"addLine", "addFragment"} =>
    LET a == Attempts(log)
        b == Breaks(log)
    IN /\ Len(a) >= 1
       /\ IsAttempt(log[1])
       /\ \A i \in 1..Len(a) : SameElement(a[i], lastArg) /\ a[i].on = context
       /\ a[1].ok => (Len(a) = 1 /\ Len(b) = 0 /\ Len(log) = 1)
       /\ ~a[1].ok =>
            /\ Len(a) = 2
            /\ Len(b) = 1
            /\ b[1].on = context
            /\ IsBreak(log[2])
            /\ IsAttempt(log[Len(log)])

\* C1 witness: a line that did not fit was retried after one page break and placed.
C1_Witness ==
  /\ lastOp = "addLine"
  /\ Len(Breaks(log)) = 1
  /\ Len(Attempts(log)) = 2
  /\ log[Len(log)].ok

\* C2: when the element does not fit on the retry either, addLine and
\* addFragment surface a failure to the caller instead of returning normally
\* with the element on no page.
C2_FailureSurfaced ==
  (/\ lastOp \in {"addLine", "addFragment"}
   /\ Len(Attempts(log)) = 2
   /\ ~log[Len(log)].ok)
  => result # "undefined"

\* C3: the current context and the writer's context are the original context
\* exactly at depth 0 and the sub-context at every depth >= 1; only the
\* outermost begin forks a sub-context, an inner commit neither restores the
\* original context nor emits a fragment, and the commit that returns to depth
\* 0 restores the original context and emits the accumulated fragment.
C3_NestedTransactions ==
  /\ writerContext = context
  /\ (transactionLevel = 0) <=> (context = "original")
  /\ transactionLevel >= 1 => (context = "transaction" /\ transactionContext # <<>>)
  /\ Len(Forks(log)) > 0 => (lastOp = "beginUnbreakableBlock" /\ transactionLevel = 1)
  /\ Len(SetContexts(log)) > 0 =>
       \/ lastOp = "beginUnbreakableBlock" /\ transactionLevel = 1
       \/ lastOp = "commitUnbreakableBlock" /\ transactionLevel = 0
  /\ (lastOp = "beginUnbreakableBlock" /\ transactionLevel = 1) =>
       /\ Len(Forks(log)) = 1
       /\ transactionContext = <<createUnbreakableSubcontext(originalContext)>>
  /\ (lastOp = "beginUnbreakableBlock" /\ transactionLevel > 1) => log = <<>>
  /\ (lastOp = "commitUnbreakableBlock" /\ transactionLevel >= 1) => log = <<>>
  /\ (lastOp = "commitUnbreakableBlock" /\ transactionLevel = 0) =>
       LET tc == transactionContext[1]
           a == Attempts(log)
       IN /\ log[1].ev = "setContext" /\ log[1].on = "original"
          /\ IF Len(tc.pages) > 0
             THEN /\ Len(a) >= 1
                  /\ \A i \in 1..Len(a) :
                       /\ a[i].on = "original"
                       /\ a[i].frag = Fragment(tc.pages[1].lines, tc.pages[1].vectors,
                                               Num(tc.y), Undefined)
             ELSE Len(log) = 1

\* C3 witness: begin, begin, commit has run: still inside the transaction, at
\* depth 1, on the sub-context, which holds content.
C3_Witness ==
  /\ lastOp = "commitUnbreakableBlock"
  /\ transactionLevel = 1
  /\ context = "transaction"
  /\ Len(transactionContext[1].pages) > 0

\* ------------------------------------------------------------------------
\* Comparing a context before and after a step
\* ------------------------------------------------------------------------
IsPrefix(a, b) == Len(a) <= Len(b) /\ SubSeq(b, 1, Len(a)) = a

\* The pages of a context of state s; none while the sub-context is undefined.
PagesOf(s, which) ==
  IF which = "transaction" /\ s.transactionContext = <<>> THEN <<>>
  ELSE Resolve(s, which).pages

\* The pages the context had before the step that produced log l: a
\* sub-context forked in that step had none.
PagesBefore(s, l, which) ==
  IF which = "transaction" /\ Len(Forks(l)) > 0 THEN <<>> ELSE PagesOf(s, which)

RECURSIVE RepLines(_, _)
RepLines(s, i) ==
  IF i > Len(s.repeatables) THEN <<>>
  ELSE Deref(s, s.repeatables[i]).lines \o RepLines(s, i + 1)

RECURSIVE RepVectors(_, _)
RepVectors(s, i) ==
  IF i > Len(s.repeatables) THEN <<>>
  ELSE Deref(s, s.repeatables[i]).vectors \o RepVectors(s, i + 1)

RECURSIVE RepHeight(_, _)
RepHeight(s, i) ==
  IF i > Len(s.repeatables) THEN 0
  ELSE Val(Deref(s, s.repeatables[i]).height) + RepHeight(s, i + 1)

\* Lines and vectors that the handler's own element (not a repeatable) put on
\* context `which`, read off the log from event i on.
RECURSIVE PlacedLines(_, _, _)
PlacedLines(l, which, i) ==
  IF i > Len(l) THEN <<>>
  ELSE (IF IsAttempt(l[i]) /\ l[i].ok /\ l[i].on = which
        THEN (IF l[i].ev = "addLine" THEN <<l[i].line>> ELSE l[i].frag.lines)
        ELSE <<>>) \o PlacedLines(l, which, i + 1)

RECURSIVE PlacedVectors(_, _, _)
PlacedVectors(l, which, i) ==
  IF i > Len(l) THEN <<>>
  ELSE (IF l[i].ok /\ l[i].on = which /\ l[i].ev = "addVector" THEN <<l[i].line>>
        ELSE IF l[i].ok /\ l[i].on = which /\ IsAttempt(l[i]) /\ l[i].ev = "addFragment"
        THEN l[i].frag.vectors
        ELSE <<>>) \o PlacedVectors(l, which, i + 1)

BreaksOn(l, which) == SelectSeq(Breaks(l), LAMBDA e : e.on = which)

\* C4, one step: a page created in the step starts with the lines and vectors
\* of every repeatable on the stack, once each and in push order, written with
\* the fit check bypassed, followed only by the handler's own element; a page
\* that existed before the step gains nothing but that element; a bare
\* moveToNextPage leaves the cursor moved down by the repeatables' heights.
C4_Step ==
  /\ \A which \in {"original", "transaction"} :
       LET P == PagesBefore(Engine, log', which)
           Q == PagesOf(Engine', which)
           cur == IF Q = <<>> THEN 0 ELSE Resolve(Engine', which).page + 1
           br == BreaksOn(log', which)
       IN \A i \in 1..Len(Q) :
            LET ownLines == IF i = cur THEN PlacedLines(log', which, 1) ELSE <<>>
                ownVectors == IF i = cur THEN PlacedVectors(log', which, 1) ELSE <<>>
            IN IF i > Len(P)
               THEN /\ Len(br) = 1 /\ br[1].ok
                    /\ Q[i].lines = RepLines(Engine, 1) \o ownLines
                    /\ Q[i].vectors = RepVectors(Engine, 1) \o ownVectors
               ELSE /\ Q[i].lines = P[i].lines \o ownLines
                    /\ Q[i].vectors = P[i].vectors \o ownVectors
  /\ LET r == Repeats(log')
         b == Breaks(log')
     IN /\ Len(r) = (IF Len(b) > 0 /\ b[1].ok THEN Len(repeatables) ELSE 0)
        /\ \A k \in 1..Len(r) :
             /\ r[k].ok
             /\ r[k].frag = Deref(Engine, repeatables[k])
             /\ r[k].on = b[1].on
  /\ lastOp' = "moveToNextPage" =>
       LET c == Resolve(Engine', context')
       IN /\ c.y = RepHeight(Engine, 1)
          /\ c.availableHeight = PageHeight - RepHeight(Engine, 1)

\* C4: every page that moveToNextPage newly creates receives each fragment of
\* the repeatable stack exactly once, in push order, before any other content
\* and without fit check; an existing page it moves onto receives no
\* repeatable content (only the cursor moves down by their heights), and pages
\* that existed before a push never receive the pushed fragment.
C4_RepeatablesOnNewPagesOnly == [][C4_Step]_vars

\* C4 witness: a bare moveToNextPage created a page while two different
\* repeatables, too tall together for the fit check, were on the stack.
C4_Witness ==
  /\ lastOp = "moveToNextPage"
  /\ Len(Breaks(log)) = 1 /\ log[1].ok
  /\ Len(repeatables) = 2
  /\ repeatables[1] # repeatables[2]
  /\ Len(Repeats(log)) = 2

\* C4 second case reached: moveToNextPage moved onto an existing page while a
\* repeatable was on the stack.
C4_WitnessExistingPage ==
  /\ lastOp = "moveToNextPage"
  /\ ~log[1].ok
  /\ Len(repeatables) > 0

\* C5: the outermost commit places the sub-context's first page into the
\* original context as one fragment of height y, through the fit-then-retry
\* protocol, so that all of it lands on one page of the original context; an
\* empty sub-context adds nothing.
C5_BlockLandsOnOnePage ==
  (lastOp = "commitUnbreakableBlock" /\ transactionLevel = 0) =>
    LET tc == transactionContext[1]
        a == Attempts(log)
        page == originalContext.pages[originalContext.page + 1]
    IN IF Len(tc.pages) > 0
       THEN /\ Len(a) >= 1
            /\ \A i \in 1..Len(a) :
                 a[i].frag = Fragment(tc.pages[1].lines, tc.pages[1].vectors,
                                      Num(tc.y), Undefined)
            /\ a[Len(a)].ok
            /\ Len(page.lines) >= Len(tc.pages[1].lines)
            /\ SubSeq(page.lines, Len(page.lines) - Len(tc.pages[1].lines) + 1,
                      Len(page.lines)) = tc.pages[1].lines
       ELSE Len(Attempts(log)) = 0 /\ Len(Breaks(log)) = 0

\* C9, one step: each context's pages only grow at the end, by at most one
\* page and only through a page break taken when page + 1 is not below the
\* number of pages; after a break the page index is one higher and in range.
C9_Step ==
  \A which \in {"original", "transaction"} :
    LET P == PagesBefore(Engine, log', which)
        Q == PagesOf(Engine', which)
        br == BreaksOn(log', which)
    IN /\ Len(Q) >= Len(P)
       /\ Len(Q) <= Len(P) + 1
       /\ \A i \in 1..Len(P) :
            /\ IsPrefix(P[i].lines, Q[i].lines)
            /\ IsPrefix(P[i].vectors, Q[i].vectors)
       /\ Len(br) <= 1
       /\ Len(br) = 0 => Len(Q) = Len(P)
       /\ Len(br) = 1 =>
            LET old == Resolve(Engine, which)
                new == Resolve(Engine', which)
            IN /\ br[1].ok <=> (old.page + 1 >= Len(P))
               /\ Len(Q) = (IF old.page + 1 >= Len(P) THEN Len(P) + 1 ELSE Len(P))
               /\ new.page = old.page + 1
               /\ new.page >= 0 /\ new.page < Len(Q)

\* C9: under every sequence of operations a context's page collection only
\* grows by appending at its end; moveToNextPage appends at most one page, only
\* when page + 1 >= number of pages, and leaves the page index one higher and
\* referring to an existing page.
C9_PagesOnlyAppended == [][C9_Step]_vars

\* C9 witness: moveToNextPage moved onto a page that already existed, and
\* appended none.
C9_Witness ==
  /\ lastOp = "moveToNextPage"
  /\ ~log[1].ok
  /\ Resolve(Engine, context).page + 1 < Len(Resolve(Engine, context).pages)

\* The engine's own fields are untouched by the step.
EngineUnchanged ==
  UNCHANGED <<originalContext, transactionContext, context, writerContext,
              transactionLevel, repeatables>>

\* What unbreakableBlockToRepeatable is said to return in the current state.
ExpectedRepeatable ==
  LET tc == transactionContext[1]
  IN Fragment(tc.pages[1].lines, tc.pages[1].vectors, Num(tc.y),
              Num(originalContext.x))

\* A fragment, once returned, denotes the same lines, vectors, height and
\* xOffset after every later operation.
RepeatableIndependent ==
  (lastOp' # "unbreakableBlockToRepeatable" /\ rep # <<>>) =>
    /\ rep' # <<>>
    /\ Deref(Engine', rep'[1]) = Deref(Engine, rep[1])

C10_OriginalStep ==
  /\ (lastOp' = "unbreakableBlockToRepeatable" /\ transactionLevel > 0) =>
       /\ result' = "fragment"
       /\ rep' # <<>>
       /\ Len(transactionContext[1].pages) > 0
       /\ Deref(Engine', rep'[1]) = ExpectedRepeatable
       /\ EngineUnchanged
  /\ RepeatableIndependent

C10_AmendedStep ==
  /\ (/\ lastOp' = "unbreakableBlockToRepeatable"
      /\ transactionLevel > 0
      /\ Len(transactionContext[1].pages) > 0) =>
       /\ result' = "fragment"
       /\ rep' # <<>>
       /\ Deref(Engine', rep'[1]) = ExpectedRepeatable
       /\ EngineUnchanged
  /\ (lastOp' = "unbreakableBlockToRepeatable" /\ transactionLevel > 0) =>
       EngineUnchanged
  /\ RepeatableIndependent

\* C10 as stated: whenever a transaction is active, unbreakableBlockToRepeatable
\* returns the fragment of the sub-context's first page (its lines and vectors,
\* xOffset = the original context's x, height = the sub-context's y), changes
\* nothing else, and the fragment is independent of the sub-context afterwards.
C10_AsStated == [][C10_OriginalStep]_vars

\* C10 amended: the same, when the sub-context already has its first page;
\* without one the call throws, still changing nothing.
C10_RepeatableSnapshot == [][C10_AmendedStep]_vars

\* C10 witness: after a fragment was returned, a further line went into the
\* sub-context's first page, which now holds more than the fragment.
C10_Witness ==
  /\ lastOp = "addLine"
  /\ context = "transaction"
  /\ rep # <<>>
  /\ Len(transactionContext[1].pages) > 0
  /\ Len(transactionContext[1].pages[1].lines) > Len(Deref(Engine, rep[1]).lines)
  /\ Len(Deref(Engine, rep[1]).lines) > 0

\* ========================================================================
\* DocMeasure
\* ========================================================================
\* JS numbers as the measurement code produces them: a number, undefined (a
\* property never set) or NaN.
NumberValue(n) == [t |-> "number", n |-> n]
UndefinedValue == [t |-> "undefined", n |-> 0]
NaNValue == [t |-> "NaN", n |-> 0]

\* a + b
JsAdd(a, b) ==
  IF a.t = "number" /\ b.t = "number" THEN NumberValue(a.n + b.n) ELSE NaNValue

\* Math.max(a, b)
JsMax(a, b) ==
  IF a.t = "number" /\ b.t = "number"
  THEN NumberValue(IF a.n >= b.n THEN a.n ELSE b.n)
  ELSE NaNValue

\* a margin property: absent, a number, or an array of numbers
NoMargin == [t |-> "absent", n |-> 0, a |-> <<>>]
NumberMargin(n) == [t |-> "number", n |-> n, a |-> <<>>]
ArrayMargin(a) == [t |-> "array", n |-> 0, a |-> a]

\* !margin
MarginFalsy(m) == m.t = "absent" \/ (m.t = "number" /\ m.n = 0)

\* a style property: absent, a style name, or an array of style names
NoStyle == [t |-> "absent", names |-> <<>>]
StyleName(name) == [t |-> "string", names |-> <<name>>]
StyleArray(names) == [t |-> "array", names |-> names]

\* a width of a table column: a bare number or string, or a descriptor object
\* { width: ..., _minWidth, _maxWidth }
Width(isObject, isNumber, n, s) ==
  [isObject |-> isObject, isNumber |-> isNumber, n |-> n, s |-> s,
   _minWidth |-> UndefinedValue, _maxWidth |-> UndefinedValue]
NumberWidth(n) == Width(FALSE, TRUE, n, "")
StringWidth(s) == Width(FALSE, FALSE, 0, s)

\* table.widths: absent, a number, a string, or an array of widths
NoWidths == [t |-> "absent", w |-> <<>>]
ScalarWidths(w) == [t |-> IF w.isNumber THEN "number" ELSE "string", w |-> <<w>>]
ArrayWidths(ws) == [t |-> "array", w |-> ws]

NoTable == [body |-> <<>>, widths |-> NoWidths,
            _minWidth |-> UndefinedValue, _maxWidth |-> UndefinedValue]

\* A document node, before measurement.
Node(kind, margin, style, text, items, table, canvas) ==
  [kind |-> kind, margin |-> margin, style |-> style, text |-> text,
   items |-> items, table |-> table, canvas |-> canvas,
   _margin |-> NoMargin, _minWidth |-> UndefinedValue, _maxWidth |-> UndefinedValue,
   _minHeight |-> UndefinedValue, _maxHeight |-> UndefinedValue,
   threw |-> ""]

Text(text, margin, style) == Node("text", margin, style, text, <<>>, NoTable, <<>>)
Container(kind, items, margin, style) ==
  Node(kind, margin, style, "", items, NoTable, <<>>)
Table(body, widths, margin) ==
  Node("table", margin, NoStyle, "", <<>>,
       [NoTable EXCEPT !.body = body, !.widths = widths], <<>>)
Canvas(vectors, margin) == Node("canvas", margin, NoStyle, "", <<>>, NoTable, vectors)

Vector(type, x, y, w, h, r1, r2, x2, y2) ==
  [type |-> type, x |-> x, y |-> y, w |-> w, h |-> h, r1 |-> r1, r2 |-> r2,
   x2 |-> x2, y2 |-> y2]

\* TextTools.buildInlines(text).minWidth / .maxWidth: the longest word and the
\* whole text, one unit per character.
buildInlinesMinWidth(text) == IF text = "hi there" THEN 5 ELSE 2
buildInlinesMaxWidth(text) == IF text = "hi there" THEN 8 ELSE 2

\* TextTools.sizeOfString(s).width for '9. ', '99. ', ...: one unit per character.
RECURSIVE Digits(_)
Digits(n) == IF n < 10 THEN 1 ELSE 1 + Digits(n \div 10)

gapSizeForList(isOrderedList, listItems) ==
  IF isOrderedList THEN Digits(Len(listItems)) + 2 ELSE 3

\* styleDictionary[node.style]: the property key is the style name, or the
\* array's elements joined by commas, which names a style only when the array
\* holds a single name.
StyleLookup(styleDict, style) ==
  IF Len(style.names) = 1 /\ style.names[1] \in DOMAIN styleDict
  THEN <<styleDict[style.names[1]]>>
  ELSE <<>>

\* the for loop of getNodeMargin, from index i down
RECURSIVE StyleMarginFrom(_, _, _)
StyleMarginFrom(styleDict, style, i) ==
  IF i < 1 THEN NoMargin
  ELSE LET found == StyleLookup(styleDict, style)
       IN IF found # <<>> /\ ~MarginFalsy(found[1].margin)
          THEN found[1].margin
          ELSE StyleMarginFrom(styleDict, style, i - 1)

ExpandMargin(margin) ==
  IF margin.t = "number"
  THEN ArrayMargin(<<margin.n, margin.n, margin.n, margin.n>>)
  ELSE IF Len(margin.a) = 2
       THEN ArrayMargin(<<margin.a[1], margin.a[2], margin.a[1], margin.a[2]>>)
       ELSE margin

getNodeMargin(node, styleDict) ==
  LET margin == IF MarginFalsy(node.margin) /\ node.style.t # "absent"
                THEN StyleMarginFrom(styleDict, node.style, Len(node.style.names))
                ELSE node.margin
  IN IF MarginFalsy(margin) THEN NoMargin ELSE ExpandMargin(margin)

extendMargins(node) ==
  IF node._margin.t = "array"
  THEN LET m == NumberValue(node._margin.a[1] + node._margin.a[3])
       IN [node EXCEPT !._minWidth = JsAdd(@, m), !._maxWidth = JsAdd(@, m)]
  ELSE node

measureLeaf(node) ==
  [node EXCEPT !._minWidth = NumberValue(buildInlinesMinWidth(node.text)),
               !._maxWidth = NumberValue(buildInlinesMaxWidth(node.text))]

Max(a, b) == IF a >= b THEN a ELSE b

\* the loop of measureCanvas from vector i on, with w and h so far
RECURSIVE CanvasWidth(_, _, _)
CanvasWidth(canvas, i, w) ==
  IF i > Len(canvas) THEN w
  ELSE LET v == canvas[i]
       IN CanvasWidth(canvas, i + 1,
            CASE v.type = "ellipse" -> Max(w, v.x + v.r1)
              [] v.type = "rect" -> Max(w, v.x + v.w)
              [] v.type = "line" -> Max(Max(w, v.x), v.x2)
              [] OTHER -> w)

RECURSIVE CanvasHeight(_, _, _)
CanvasHeight(canvas, i, h) ==
  IF i > Len(canvas) THEN h
  ELSE LET v == canvas[i]
       IN CanvasHeight(canvas, i + 1,
            CASE v.type = "ellipse" -> Max(h, v.y + v.r2)
              [] v.type = "rect" -> Max(h, v.y + v.h)
              [] v.type = "line" -> Max(Max(h, v.y), v.y2)
              [] OTHER -> h)

measureCanvas(node) ==
  LET w == CanvasWidth(node.canvas, 1, 0)
      h == CanvasHeight(node.canvas, 1, 0)
  IN [node EXCEPT !._minWidth = NumberValue(w), !._maxWidth = NumberValue(w),
                  !._minHeight = NumberValue(h), !._maxHeight = NumberValue(h)]

\* extendTableWidths(node): what it leaves in node.table.widths
extendTableWidths(table) ==
  LET cols == Len(table.body[1])
      w0 == IF table.widths.t = "absent" THEN ScalarWidths(StringWidth("auto"))
            ELSE table.widths
      w1 == IF w0.t = "string"
            THEN ArrayWidths([i \in 1..Max(cols, 1) |-> w0.w[1]])
            ELSE w0
  IN IF w1.t = "array"
     THEN ArrayWidths([i \in 1..Len(w1.w) |-> [w1.w[i] EXCEPT !.isObject = TRUE]])
     ELSE w1

RECURSIVE measureNode(_, _)

\* for (i ...) items[i] = this.measureNode(items[i])
MeasureAll(items, styleDict) ==
  [i \in 1..Len(items) |-> measureNode(items[i], styleDict)]

\* what the first item that threw has thrown; "" when none did
RECURSIVE FirstThrow(_, _)
FirstThrow(ms, i) ==
  IF i > Len(ms) THEN ""
  ELSE IF ms[i].threw # "" THEN ms[i].threw
  ELSE FirstThrow(ms, i + 1)

\* Math.max(acc, items[i]._minWidth) over the items, from i on
RECURSIVE MaxMinWidth(_, _, _)
MaxMinWidth(ms, i, acc) ==
  IF i > Len(ms) THEN acc ELSE MaxMinWidth(ms, i + 1, JsMax(acc, ms[i]._minWidth))

RECURSIVE MaxMaxWidth(_, _, _)
MaxMaxWidth(ms, i, acc) ==
  IF i > Len(ms) THEN acc ELSE MaxMaxWidth(ms, i + 1, JsMax(acc, ms[i]._maxWidth))

\* acc += columns[i]._minWidth over the columns, from i on
RECURSIVE SumMinWidth(_, _, _)
SumMinWidth(ms, i, acc) ==
  IF i > Len(ms) THEN acc ELSE SumMinWidth(ms, i + 1, JsAdd(acc, ms[i]._minWidth))

RECURSIVE SumMaxWidth(_, _, _)
SumMaxWidth(ms, i, acc) ==
  IF i > Len(ms) THEN acc ELSE SumMaxWidth(ms, i + 1, JsAdd(acc, ms[i]._maxWidth))

\* Math.max(acc, items[i]._minWidth + gapSize.width) over the items, from i on
RECURSIVE MaxMinWidthWithGap(_, _, _, _)
MaxMinWidthWithGap(ms, i, acc, gap) ==
  IF i > Len(ms) THEN acc
  ELSE MaxMinWidthWithGap(ms, i + 1,
         JsMax(acc, JsAdd(ms[i]._minWidth, NumberValue(gap))), gap)

RECURSIVE MaxMaxWidthWithGap(_, _, _, _)
MaxMaxWidthWithGap(ms, i, acc, gap) ==
  IF i > Len(ms) THEN acc
  ELSE MaxMaxWidthWithGap(ms, i + 1,
         JsMax(acc, JsAdd(ms[i]._maxWidth, NumberValue(gap))), gap)

measureVerticalContainer(node, styleDict) ==
  LET ms == MeasureAll(node.items, styleDict)
  IN IF FirstThrow(ms, 1) # ""
     THEN [node EXCEPT !.items = ms, !.threw = FirstThrow(ms, 1)]
     ELSE [node EXCEPT !.items = ms,
                       !._minWidth = MaxMinWidth(ms, 1, NumberValue(0)),
                       !._maxWidth = MaxMaxWidth(ms, 1, NumberValue(0))]

measureColumns(node, styleDict) ==
  LET ms == MeasureAll(node.items, styleDict)
  IN IF FirstThrow(ms, 1) # ""
     THEN [node EXCEPT !.items = ms, !.threw = FirstThrow(ms, 1)]
     ELSE [node EXCEPT !.items = ms,
                       !._minWidth = SumMinWidth(ms, 1, NumberValue(0)),
                       !._maxWidth = SumMaxWidth(ms, 1, NumberValue(0))]

measureList(isOrdered, node, styleDict) ==
  LET gap == gapSizeForList(isOrdered, node.items)
      ms == MeasureAll(node.items, styleDict)
  IN IF FirstThrow(ms, 1) # ""
     THEN [node EXCEPT !.items = ms, !.threw = FirstThrow(ms, 1)]
     ELSE [node EXCEPT !.items = ms,
                       !._minWidth = MaxMinWidthWithGap(ms, 1, NumberValue(0), gap),
                       !._maxWidth = MaxMaxWidthWithGap(ms, 1, NumberValue(0), gap)]

\* column col of a measured body, top to bottom
Column(body, col) == [row \in 1..Len(body) |-> body[row][col]]

\* all cells of the columns 1..k, in the order measureTable measures them
RECURSIVE CellsUpTo(_, _, _)
CellsUpTo(body, col, k) ==
  IF col > k THEN <<>> ELSE Column(body, col) \o CellsUpTo(body, col + 1, k)

measureTable(node, styleDict) ==
  LET widths == extendTableWidths(node.table)
      cols == Len(node.table.body[1])
      \* node.table.widths[col] is an object for the columns 1..k only
      k == IF widths.t = "array"
           THEN (IF Len(widths.w) < cols THEN Len(widths.w) ELSE cols)
           ELSE 0
      body == [row \in 1..Len(node.table.body) |->
                [col \in 1..cols |->
                  IF col <= k THEN measureNode(node.table.body[row][col], styleDict)
                  ELSE node.table.body[row][col]]]
      cellThrow == FirstThrow(CellsUpTo(body, 1, k), 1)
      measuredWidths ==
        IF widths.t = "array"
        THEN ArrayWidths(
               [col \in 1..Len(widths.w) |->
                  IF col <= k
                  THEN [widths.w[col] EXCEPT
                          !._minWidth = MaxMinWidth(Column(body, col), 1, NumberValue(0)),
                          !._maxWidth = MaxMaxWidth(Column(body, col), 1, NumberValue(0))]
                  ELSE widths.w[col]])
        ELSE widths
      measuredColumns == SubSeq(measuredWidths.w, 1, k)
      table == [node.table EXCEPT
                  !.body = body,
                  !.widths = measuredWidths,
                  !._minWidth = SumMinWidth(measuredColumns, 1, NumberValue(0)),
                  !._maxWidth = SumMaxWidth(measuredColumns, 1, NumberValue(0))]
  IN IF cellThrow # "" THEN [node EXCEPT !.table = table, !.threw = cellThrow]
     ELSE IF k < cols THEN [node EXCEPT !.table = table, !.threw = "TypeError"]
     ELSE [node EXCEPT !.table = table]

measureNode(node, styleDict) ==
  LET n == [node EXCEPT !._margin = getNodeMargin(node, styleDict)]
      m == CASE n.kind = "columns" -> measureColumns(n, styleDict)
             [] n.kind = "stack" -> measureVerticalContainer(n, styleDict)
             [] n.kind = "ul" -> measureList(FALSE, n, styleDict)
             [] n.kind = "ol" -> measureList(TRUE, n, styleDict)
             [] n.kind = "table" -> measureTable(n, styleDict)
             [] n.kind = "text" -> measureLeaf(n)
             [] n.kind = "canvas" -> measureCanvas(n)
             [] OTHER -> [n EXCEPT !.threw = "Unrecognized document structure"]
  IN IF m.threw # "" THEN m ELSE extendMargins(m)

measureDocument(docStructure, styleDict) == measureNode(docStructure, styleDict)

\* ------------------------------------------------------------------------
\* Documents and style dictionaries the measurement pass is run on
\* ------------------------------------------------------------------------
InputMargins ==
  {NoMargin, NumberMargin(0), NumberMargin(2), ArrayMargin(<<1, 2>>),
   ArrayMargin(<<1, 2, 3, 4>>)}

InputStyles ==
  {NoStyle, StyleName("header"), StyleName("plain"), StyleArray(<<"header">>),
   StyleArray(<<"plain", "header">>), StyleArray(<<"header", "plain">>),
   StyleArray(<<"header", "small">>)}

StyleDictionaries ==
  { ("header" :> [margin |-> NumberMargin(3)]) @@ ("plain" :> [margin |-> NoMargin])
      @@ ("small" :> [margin |-> ArrayMargin(<<1, 2>>)]),
    ("header" :> [margin |-> NoMargin]) @@ ("plain" :> [margin |-> NumberMargin(5)]) }

Leaves == {Text("hi there", m, s) : m \in InputMargins, s \in InputStyles}

Children ==
  {Text("hi there", NoMargin, NoStyle), Text("ok", NumberMargin(2), NoStyle),
   Canvas(<<Vector("rect", 1, 1, 2, 3, 0, 0, 0, 0),
            Vector("ellipse", 2, 2, 0, 0, 2, 1, 0, 0)>>, NoMargin)}

ContainerKinds == {"stack", "columns", "ul", "ol"}

SeqsUpTo(S, n) == UNION {[1..k -> S] : k \in 1..n}

Containers ==
  {Container(k, items, m, NoStyle) :
     k \in ContainerKinds, items \in SeqsUpTo(Children, MaxChildren),
     m \in {NoMargin, NumberMargin(2)}}

InputWidthEntries ==
  {NumberWidth(50), StringWidth("auto"), Width(TRUE, FALSE, 0, "*")}

InputWidths ==
  {NoWidths, ScalarWidths(NumberWidth(50)), ScalarWidths(StringWidth("auto")),
   ScalarWidths(StringWidth("*"))}
  \cup {ArrayWidths(ws) : ws \in SeqsUpTo(InputWidthEntries, MaxCols)}

Bodies ==
  {[row \in 1..rows |-> [col \in 1..cols |-> cell]] :
     rows \in 1..MaxRows, cols \in 1..MaxCols, cell \in Children}

Tables ==
  {Table(body, widths, m) :
     body \in Bodies, widths \in InputWidths, m \in {NoMargin, NumberMargin(2)}}

\* containers that hold a table or another container
Nested ==
  {Container(k, <<child>>, m, NoStyle) :
     k \in ContainerKinds,
     child \in {Table(<<<<Text("ok", NoMargin, NoStyle)>>>>, NoWidths, NoMargin),
                Table(<<<<Text("ok", NoMargin, NoStyle)>>>>,
                      ArrayWidths(<<NumberWidth(50)>>), NumberMargin(2)),
                Container("stack", <<Text("hi there", NumberMargin(2), NoStyle)>>,
                          NumberMargin(2), NoStyle)},
     m \in {NoMargin, NumberMargin(2)}}

Documents == Leaves \cup Containers \cup Tables \cup Nested

MeasureInit ==
  /\ PwInit
  /\ doc \in Documents
  /\ styleDictionary \in StyleDictionaries
  /\ measured = <<>>

\* DocMeasure.prototype.measureDocument, run once on the document
MeasureDocument ==
  /\ measured = <<>>
  /\ measured' = <<measureDocument(doc, styleDictionary)>>
  /\ UNCHANGED <<doc, styleDictionary>>
  /\ UNCHANGED pwVars

MeasureNext == MeasureDocument

SpecMeasure == MeasureInit /\ [][MeasureNext]_vars

\* ------------------------------------------------------------------------
\* Claims about the measurement pass
\* ------------------------------------------------------------------------
\* the width the claim expects for column i of n
ExpectedWidth(given, i) ==
  IF given.t = "absent" THEN StringWidth("auto")
  ELSE IF given.t = "array"
       THEN given.w[IF i <= Len(given.w) THEN i ELSE Len(given.w)]
       ELSE given.w[1]

\* C6: after measuring a table with n body columns, table.widths is a list of
\* exactly n descriptors: absent widths give n times "auto", a scalar number or
\* string is broadcast to all columns, a shorter list is extended with its
\* last value, bare values are wrapped into {width: value}; measurement ends
\* without error and each descriptor carries numeric _minWidth and _maxWidth.
C6_TableWidthsNormalised ==
  (/\ measured # <<>>
   /\ doc.kind = "table"
   /\ doc.table.widths.t = "array" => Len(doc.table.widths.w) <= Len(doc.table.body[1]))
  => LET m == measured[1]
         n == Len(doc.table.body[1])
         w == m.table.widths
     IN /\ m.threw = ""
        /\ w.t = "array"
        /\ Len(w.w) = n
        /\ \A i \in 1..n :
             /\ w.w[i].isObject
             /\ w.w[i].isNumber = ExpectedWidth(doc.table.widths, i).isNumber
             /\ w.w[i].n = ExpectedWidth(doc.table.widths, i).n
             /\ w.w[i].s = ExpectedWidth(doc.table.widths, i).s
             /\ w.w[i]._minWidth.t = "number"
             /\ w.w[i]._maxWidth.t = "number"

\* the margin of the first style, searched from the last name to the first and
\* each looked up on its own, that declares one
RECURSIVE ClaimedStyleMargin(_, _, _)
ClaimedStyleMargin(styleDict, names, i) ==
  IF i < 1 THEN NoMargin
  ELSE IF names[i] \in DOMAIN styleDict /\ styleDict[names[i]].margin.t # "absent"
       THEN styleDict[names[i]].margin
       ELSE ClaimedStyleMargin(styleDict, names, i - 1)

ClaimedMargin(node, styleDict) ==
  LET margin == IF node.margin.t # "absent" THEN node.margin
                ELSE ClaimedStyleMargin(styleDict, node.style.names,
                                        Len(node.style.names))
  IN IF margin.t = "absent" THEN NoMargin
     ELSE IF margin.t = "number"
          THEN ArrayMargin(<<margin.n, margin.n, margin.n, margin.n>>)
          ELSE IF Len(margin.a) = 2
               THEN ArrayMargin(<<margin.a[1], margin.a[2], margin.a[1], margin.a[2]>>)
               ELSE margin

\* C7: _margin is the node's explicit margin whenever present (0 included),
\* else the margin of the first style declaring one, searching the style names
\* from last to first and looking each up individually, else none; m expands
\* to [m,m,m,m], [a,b] to [a,b,a,b], four elements stay.
C7_MarginResolved ==
  measured # <<>> => measured[1]._margin = ClaimedMargin(doc, styleDictionary)

RECURSIVE BoundsOrdered(_)
BoundsOrdered(node) ==
  /\ node._minWidth.t = "number"
  /\ node._maxWidth.t = "number"
  /\ node._minWidth.n <= node._maxWidth.n
  /\ \A i \in 1..Len(node.items) : BoundsOrdered(node.items[i])
  /\ \A row \in 1..Len(node.table.body) :
       \A col \in 1..Len(node.table.body[row]) :
         BoundsOrdered(node.table.body[row][col])

\* C8: every node of a measured tree, table nodes and containers holding a
\* table included, carries numeric _minWidth <= _maxWidth.
C8_BoundOrdering ==
  (measured # <<>> /\ measured[1].threw = "") => BoundsOrdered(measured[1])

====
